---- MODULE Spec2Model ----
(***************************************************************************)
(* PDF2MDWithGemini (src/main.ts): the conversion pipeline convertFile,    *)
(* the file-menu handler that starts it, and the fence-stripping and       *)
(* path-mapping regular expressions it applies.                            *)
(*                                                                         *)
(* Strings whose characters the code inspects (markdown text, paths, the   *)
(* API key) are sequences of one-character strings.  Notices are sequences *)
(* of string fragments whose concatenation is the notice text.             *)
(*                                                                         *)
(* The host (Obsidian's vault, fetch) is not part of src/main.ts; it is    *)
(* taken to behave as follows.  The vault holds files only, and the file   *)
(* picked from the menu can be read.  vault.create rejects when the path   *)
(* is occupied at the moment of the call (which is why the code looks the  *)
(* path up first); the content of a modify or create is in the vault when  *)
(* the awaited call resolves.  A fetch resolves with a status, headers and *)
(* a body, or rejects.                                                     *)
(***************************************************************************)
EXTENDS Integers, Sequences, FiniteSets, TLC

VARIABLES
    apiKeySetting,  \* this.settings.apiKey
    vault,          \* the host file store: path -> content, for the entries that exist
    lowerExt,       \* whether the host reports TFile.extension lower-cased
    pc,             \* per invocation: the await point convertFile is suspended at
    file,           \* per invocation: the TFile (its path) convertFile was called with
    keyRead,        \* per invocation: this.settings.apiKey as read at line 68
    apiKey,         \* per invocation: const apiKey (line 68)
    pending,        \* per invocation: the vault call awaited at lines 177/179
    outcome,        \* per invocation: how the run ended
    requests,       \* per invocation: the fetch calls issued, in order
    responses,      \* per invocation: the responses received, in order
    notices,        \* per invocation: the Notice texts shown, in order
    vaultCalls,     \* per invocation: the vault.create / vault.modify calls made
    writeLog,       \* the completed vault writes, in completion order
    sIn,            \* fence stripping alone: the input text
    sCur,           \* fence stripping alone: the current text
    sOnce,          \* fence stripping alone: the text after the first application
    sStage,         \* fence stripping alone: what has been applied so far
    sWrapped,       \* fence stripping alone: whether the input was fence-wrapped first
    temperature,    \* this.settings.temperature, in units of 1/Scale
    savedTemperature, \* the temperature last given to saveData, in units of 1/Scale
    sliderShown,    \* the value the Temperature slider shows, in units of 1/Scale
    textShown,      \* the text the Temperature text field shows
    textTail        \* text-field onChange handlers suspended at await saveSettings()

convVars == <<apiKeySetting, vault, lowerExt, pc, file, keyRead, apiKey, pending, outcome,
              requests, responses, notices, vaultCalls, writeLog>>
stripVars == <<sIn, sCur, sOnce, sStage, sWrapped>>
tempVars == <<temperature, savedTemperature, sliderShown, textShown, textTail>>
vars == <<convVars, stripVars, tempVars>>

----------------------------------------------------------------------------
(* Bounds *)

NumInv == 2        \* invocations of convertFile
MaxLen == 7        \* length of the texts given to the fence stripper
MaxTagged == 2     \* length of the texts that follow a "markdown" tag

----------------------------------------------------------------------------
(* Strings *)

BT == "'"     \* the backtick (a TLA+ string cannot hold one)
LF == "\n"
CR == "\r"

Fence == <<BT, BT, BT>>
MarkdownTag == <<"m", "a", "r", "k", "d", "o", "w", "n">>

StartsWith(s, p) == Len(s) >= Len(p) /\ SubSeq(s, 1, Len(p)) = p
EndsWith(s, p) == Len(s) >= Len(p) /\ SubSeq(s, Len(s) - Len(p) + 1, Len(s)) = p
Drop(s, n) == SubSeq(s, n + 1, Len(s))

\* an optional regex item: consumed when present (greedy), skipped otherwise
SkipOpt(s, p) == IF StartsWith(s, p) THEN Drop(s, Len(p)) ELSE s

\* the texts \r?\n?``` matches
TrailMatches == {<<CR, LF>> \o Fence, <<CR>> \o Fence, <<LF>> \o Fence, Fence}

\* .replace(/^```(?:markdown)?\r?\n?/, '')
StripLeadNoFence(s) == SkipOpt(SkipOpt(SkipOpt(SkipOpt(s, Fence), MarkdownTag), <<CR>>), <<LF>>)
StripLead(s) ==
    IF StartsWith(s, Fence)
    THEN SkipOpt(SkipOpt(SkipOpt(Drop(s, Len(Fence)), MarkdownTag), <<CR>>), <<LF>>)
    ELSE s

\* .replace(/\r?\n?```$/, ''): the leftmost position whose suffix the pattern matches
StripTrailUnanchored(s) ==
    LET starts == {i \in 1..Len(s) : \E t \in TrailMatches : StartsWith(Drop(s, i - 1), t)}
    IN  IF starts = {} THEN s
        ELSE LET i == CHOOSE j \in starts : \A k \in starts : j <= k
                 t == CHOOSE u \in TrailMatches :
                        /\ StartsWith(Drop(s, i - 1), u)
                        /\ \A w \in TrailMatches :
                              StartsWith(Drop(s, i - 1), w) => Len(w) <= Len(u)
             IN  SubSeq(s, 1, i - 1) \o Drop(s, i - 1 + Len(t))
StripTrail(s) ==
    LET starts == {i \in 1..Len(s) : Drop(s, i - 1) \in TrailMatches}
    IN  IF starts = {} THEN s
        ELSE SubSeq(s, 1, (CHOOSE j \in starts : \A k \in starts : j <= k) - 1)

\* markdown.replace(/^```(?:markdown)?\r?\n?/, '').replace(/\r?\n?```$/, '')
StripLeadOnly(s) == StripLead(s)
StripFences(s) == StripTrail(StripLead(s))

\* "```markdown\n" + text + "\n```"
WrapFences(text) == Fence \o MarkdownTag \o <<LF>> \o text \o <<LF>> \o Fence

----------------------------------------------------------------------------
(* Fence stripping applied to bounded texts *)

StripAlphabet == {BT, LF, CR, "a"}
SeqsUpTo(S, n) == UNION {[1..k -> S] : k \in 0..n}
StripInputs ==
    SeqsUpTo(StripAlphabet, MaxLen)
        \cup {Fence \o MarkdownTag \o t : t \in SeqsUpTo(StripAlphabet, MaxTagged)}
        \cup {MarkdownTag \o t : t \in SeqsUpTo(StripAlphabet, MaxTagged)}

InitStrip ==
    /\ sIn \in StripInputs
    /\ sCur = sIn
    /\ sOnce = <<>>
    /\ sStage = "input"
    /\ sWrapped = FALSE

Wrap ==
    /\ sStage = "input"
    /\ ~sWrapped
    /\ sCur' = WrapFences(sCur)
    /\ sWrapped' = TRUE
    /\ UNCHANGED <<sIn, sOnce, sStage, convVars, tempVars>>

StripFirst ==
    /\ sStage = "input"
    /\ sCur' = StripFences(sCur)
    /\ sOnce' = StripFences(sCur)
    /\ sStage' = "once"
    /\ UNCHANGED <<sIn, sWrapped, convVars, tempVars>>

StripAgain ==
    /\ sStage = "once"
    /\ sCur' = StripFences(sCur)
    /\ sStage' = "twice"
    /\ UNCHANGED <<sIn, sOnce, sWrapped, convVars, tempVars>>

----------------------------------------------------------------------------
(* Host values: TFile paths, extensions, JavaScript truthiness *)

Null == <<>>                           \* null / undefined
Some(v) == <<v>>
FalsyOnlyNull(o) == o = Null
Falsy(o) == o = Null \/ o = Some("")   \* !x for a string-or-null x
OrElse(a, b) == IF Falsy(a) THEN b ELSE a     \* a || b

Invs == 1..NumInv

PdfBytes == <<"%", "P", "D", "F">>
OldNote == <<"o", "l", "d">>
ReportPdf == <<"r", ".", "p", "d", "f">>
ReportPDF == <<"r", ".", "P", "D", "F">>
ReportMd == <<"r", ".", "m", "d">>
NotesMd == <<"n", ".", "m", "d">>
DotPdf == <<".", "p", "d", "f">>
DotMd == <<".", "m", "d">>
Pdf == <<"p", "d", "f">>

LowerChar(c) == CASE c = "P" -> "p" [] c = "D" -> "d" [] c = "F" -> "f" [] OTHER -> c
ToLower(s) == [k \in 1..Len(s) |-> LowerChar(s[k])]

\* TFile.name: the part of the path after the last "/"
FileName(path) ==
    LET slashes == {k \in 1..Len(path) : path[k] = "/"}
    IN  IF slashes = {} THEN path
        ELSE Drop(path, CHOOSE k \in slashes : \A m \in slashes : m <= k)

\* TFile.extension: the part of the name after its last "."
FileExtension(path, lower) ==
    LET name == FileName(path)
        dots == {k \in 1..Len(name) : name[k] = "."}
        ext == IF dots = {} THEN <<>>
               ELSE Drop(name, CHOOSE k \in dots : \A m \in dots : m <= k)
    IN  IF lower THEN ToLower(ext) ELSE ext

\* if (file.extension === 'pdf')
MenuOffers(path, lower) == FileExtension(path, lower) = Pdf

\* file.path.replace(/\.pdf$/i, '.md')
NewPathCaseSensitive(path) ==
    IF EndsWith(path, DotPdf)
    THEN SubSeq(path, 1, Len(path) - Len(DotPdf)) \o DotMd
    ELSE path
NewPath(path) ==
    IF Len(path) >= Len(DotPdf) /\ ToLower(Drop(path, Len(path) - Len(DotPdf))) = DotPdf
    THEN SubSeq(path, 1, Len(path) - Len(DotPdf)) \o DotMd
    ELSE path

\* String.prototype.trim
WhiteSpace == {" ", "\t", LF, CR}
TrimNothing(s) == s
Trim(s) ==
    LET keep == {k \in 1..Len(s) : s[k] \notin WhiteSpace}
    IN  IF keep = {} THEN <<>>
        ELSE SubSeq(s, CHOOSE k \in keep : \A m \in keep : k <= m,
                       CHOOSE k \in keep : \A m \in keep : m <= k)

ApiKeys == {<<>>, <<" ", "\t">>, <<" ", "k", " ">>}

----------------------------------------------------------------------------
(* The remote service's answers and JSON.parse on their bodies *)

Title == <<"#", " ", "T", "i", "t", "l", "e">>

UploadUrlHeader == "x-goog-upload-url"
HeaderNameLower(name) == IF name = "X-Goog-Upload-URL" THEN UploadUrlHeader ELSE name
\* Headers.get: header names match without regard to case; null when absent
HeadersGet(headers, name) ==
    IF HeaderNameLower(name) \in DOMAIN headers
    THEN Some(headers[HeaderNameLower(name)])
    ELSE Null

\* Response.ok
ResponseOkBelow600(r) == r.status \in 200..599
ResponseOk(r) == r.status \in 200..299

Rejected == [rejected |-> TRUE, status |-> 0, headers |-> ("content-type" :> ""), body |-> ""]
Answer(status, headers, body) ==
    [rejected |-> FALSE, status |-> status, headers |-> headers, body |-> body]
JsonHeaders == "content-type" :> "application/json"

\* the bodies; their backticks are written ' as in BT
BodyFileUri == "{\"file\":{\"uri\":\"files/abc\"}}"
BodyEmptyUri == "{\"file\":{\"uri\":\"\"}}"
BodyNoUri == "{\"file\":{}}"
BodyEmptyObject == "{}"
BodyNotJson == "<html>"
BodyFenced == "{\"candidates\":[{\"content\":{\"parts\":[{\"text\":\"'''markdown\\n# Title\\n'''\"}]}}]}"
BodyTwoParts == "{\"candidates\":[{\"content\":{\"parts\":[{\"text\":\"'''\\r\\nA\"},{\"text\":\"\\r\\n'''\"}]}},{}]}"
BodyPlain == "{\"candidates\":[{\"content\":{\"parts\":[{\"text\":\"B\"},{\"inlineData\":{}}]}}]}"
BodyNoCandidates == "{\"candidates\":[]}"
BodyNoContent == "{\"candidates\":[{}]}"

StartResponses ==
    { Answer(200, (UploadUrlHeader :> "https://example/upload/123") @@ JsonHeaders, BodyEmptyObject),
      Answer(200, JsonHeaders, BodyEmptyObject),
      Answer(500, JsonHeaders, "Internal error"),
      Rejected }

UploadResponses ==
    { Answer(200, JsonHeaders, BodyFileUri),
      Answer(200, JsonHeaders, BodyEmptyUri),
      Answer(200, JsonHeaders, BodyNoUri),
      Answer(200, JsonHeaders, BodyEmptyObject),
      Answer(200, JsonHeaders, BodyNotJson),
      Answer(503, JsonHeaders, "Service unavailable"),
      Rejected }

GenerateResponses ==
    { Answer(200, JsonHeaders, BodyFenced),
      Answer(200, JsonHeaders, BodyTwoParts),
      Answer(200, JsonHeaders, BodyPlain),
      Answer(200, JsonHeaders, BodyNoCandidates),
      Answer(200, JsonHeaders, BodyNoContent),
      Answer(200, JsonHeaders, BodyEmptyObject),
      Answer(200, JsonHeaders, BodyNotJson),
      Answer(429, JsonHeaders, "Quota exceeded"),
      Rejected }

Object(fileField, candidatesField) == [file |-> fileField, candidates |-> candidatesField]
Candidate(parts) == [content |-> Some([parts |-> parts])]
TextPart(text) == [text |-> Some(text)]
OtherPart == [text |-> Null]
Parsed(value) == [ok |-> TRUE, value |-> value]

\* JSON.parse on the bodies above; a SyntaxError on anything else
JsonParse(body) ==
    CASE body = BodyFileUri -> Parsed(Object(Some([uri |-> Some("files/abc")]), Null))
      [] body = BodyEmptyUri -> Parsed(Object(Some([uri |-> Some("")]), Null))
      [] body = BodyNoUri -> Parsed(Object(Some([uri |-> Null]), Null))
      [] body = BodyEmptyObject -> Parsed(Object(Null, Null))
      [] body = BodyNoCandidates -> Parsed(Object(Null, Some(<<>>)))
      [] body = BodyNoContent -> Parsed(Object(Null, Some(<<[content |-> Null]>>)))
      [] body = BodyFenced ->
            Parsed(Object(Null, Some(<<Candidate(
                <<TextPart(Fence \o MarkdownTag \o <<LF>> \o Title \o <<LF>> \o Fence)>>)>>)))
      [] body = BodyTwoParts ->
            Parsed(Object(Null, Some(<<Candidate(
                <<TextPart(Fence \o <<CR, LF, "A">>), TextPart(<<CR, LF>> \o Fence)>>),
                [content |-> Null]>>)))
      [] body = BodyPlain ->
            Parsed(Object(Null, Some(<<Candidate(<<TextPart(<<"B">>), OtherPart>>)>>)))
      [] OTHER -> [ok |-> FALSE, value |-> Object(Null, Null)]

\* candidates[0].content.parts.map(part => part.text).join(''): an undefined joins as ''
RECURSIVE JoinTexts(_)
JoinTexts(parts) ==
    IF parts = <<>> THEN <<>>
    ELSE (IF Head(parts).text = Null THEN <<>> ELSE Head(parts).text[1]) \o JoinTexts(Tail(parts))

----------------------------------------------------------------------------
(* convertFile, cut at its awaits: what each stretch of code says, requests,
   calls on the vault, and where it suspends or ends *)

ErrorNotice(message) == <<"Error converting file: ", message>>

Suspend(say, req, at) ==
    [say |-> say, req |-> req, call |-> Null, pc |-> at, outcome |-> "running"]
\* return after a notice
Return(say) ==
    [say |-> say, req |-> <<>>, call |-> Null, pc |-> "ended", outcome |-> "returned"]
\* the catch block: console.error, then one notice with error.message
CatchSilent(say, message) ==
    [say |-> say, req |-> <<>>, call |-> Null, pc |-> "ended", outcome |-> "caught"]
Catch(say, message) ==
    [say |-> Append(say, ErrorNotice(message)), req |-> <<>>, call |-> Null,
     pc |-> "ended", outcome |-> "caught"]

Request(kind, url, key, ref) == [kind |-> kind, url |-> url, key |-> key, ref |-> ref]

\* new Notice(`Converting ${file.name} to Markdown...`)
ConvertingNotice(f) == <<"Converting ">> \o FileName(f) \o <<" to Markdown...">>

\* lines 68-90: the key check, then the session-start request
AfterRead(setting) ==
    LET key == Trim(setting)
    IN  IF key = <<>>
        THEN Return(<< <<"Please set your API key in plugin settings.">> >>)
        ELSE Suspend(<<>>,
                     <<Request("start",
                               "https://generativelanguage.googleapis.com/upload/v1beta/files",
                               key, Null)>>,
                     "awaitStart")

\* lines 91-118: the start response, then the upload request
AfterStart(r) ==
    IF r.rejected THEN Catch(<<>>, "Failed to fetch")
    ELSE IF ~ResponseOk(r)
    THEN Return(<< <<"Upload start failed: ", ToString(r.status), " - ", r.body>> >>)
    ELSE LET uploadUrl == OrElse(HeadersGet(r.headers, "x-goog-upload-url"),
                                 HeadersGet(r.headers, "X-Goog-Upload-URL"))
         IN  IF Falsy(uploadUrl)
             THEN Return(<< <<"Upload session started">>, <<"No upload URL returned">> >>)
             ELSE Suspend(<< <<"Upload session started">>, <<"Uploading file...">> >>,
                          <<Request("upload", uploadUrl[1], <<>>, Null)>>,
                          "awaitUpload")

\* lines 119-155: the upload response, then the generation request
AfterUpload(r, key) ==
    IF r.rejected THEN Catch(<<>>, "Failed to fetch")
    ELSE IF ~ResponseOk(r)
    THEN Return(<< <<"Upload content failed: ", ToString(r.status), " - ", r.body>> >>)
    ELSE LET said == << <<"File uploaded successfully">> >>
             fileInfo == JsonParse(r.body)
         IN  IF ~fileInfo.ok
             THEN Catch(said, "Unexpected token < in JSON at position 0")
             ELSE IF fileInfo.value.file = Null
             THEN Catch(said, "Cannot read properties of undefined (reading 'uri')")
             ELSE LET fileUri == fileInfo.value.file[1].uri
                  IN  IF Falsy(fileUri)
                      THEN Return(Append(said, <<"No file URI returned">>))
                      ELSE Suspend(Append(said, <<"Waiting for API response...">>),
                                   <<Request("generate",
                                             "https://generativelanguage.googleapis.com/v1beta/models/{modelName}:generateContent",
                                             key, fileUri)>>,
                                   "awaitGenerate")

\* lines 175-180: modify the TFile at newPath when there is one, create otherwise
\* (existing records what getAbstractFileByPath(newPath) found)
WriteAlwaysCreate(newPath, markdown, entries) ==
    [op |-> "create", path |-> newPath, data |-> markdown, existing |-> newPath \in entries]
WriteCall(newPath, markdown, entries) ==
    IF newPath \in entries
    THEN [op |-> "modify", path |-> newPath, data |-> markdown, existing |-> TRUE]
    ELSE [op |-> "create", path |-> newPath, data |-> markdown, existing |-> FALSE]

\* lines 156-180: the generation response, fence stripping, and the vault call
AfterGenerate(r, f, entries) ==
    IF r.rejected THEN Catch(<<>>, "Failed to fetch")
    ELSE IF ~ResponseOk(r)
    THEN Return(<< <<"Generate content failed: ", ToString(r.status), " - ", r.body>> >>)
    ELSE LET said == << <<"API response received, generating markdown...">> >>
             genData == JsonParse(r.body)
             candidates == genData.value.candidates
         IN  IF ~genData.ok
             THEN Catch(said, "Unexpected token < in JSON at position 0")
             ELSE IF candidates = Null \/ Len(candidates[1]) = 0
             THEN Catch(said, "No candidates returned")
             ELSE IF candidates[1][1].content = Null
             THEN Catch(said, "Cannot read properties of undefined (reading 'parts')")
             ELSE LET markdown == StripFences(JoinTexts(candidates[1][1].content[1].parts))
                  IN  [say |-> said, req |-> <<>>,
                       call |-> Some(WriteCall(NewPath(f), markdown, entries)),
                       pc |-> "awaitWrite", outcome |-> "running"]

\* new Notice(`Converted ${file.name} to ${newPath}`)
ConvertedNotice(f, newPath) == <<"Converted ">> \o FileName(f) \o <<" to ">> \o newPath

----------------------------------------------------------------------------
(* The Temperature setting: numbers are integers in units of 1/Scale, texts are
   sequences of characters *)

MaxText == 3       \* length of the texts typed into the Temperature field
MaxTail == 2       \* text-field handlers suspended at once

Scale == 10 ^ MaxText

SliderMin == 0
SliderMax == 2
SliderStep == Scale \div 10                 \* setLimits(0, 2, 0.1)
DefaultTemperature == Scale \div 2          \* temperature: 0.5

Digits == <<"0", "1", "2", "3", "4", "5", "6", "7", "8", "9">>
IsDigit(c) == \E d \in 1..10 : Digits[d] = c
DigitValue(c) == (CHOOSE d \in 1..10 : Digits[d] = c) - 1

\* the longest prefix of s made of digits
DigitPrefix(s) ==
    LET stops == {k \in 1..Len(s) : ~IsDigit(s[k])}
    IN  IF stops = {} THEN s
        ELSE SubSeq(s, 1, (CHOOSE k \in stops : \A m \in stops : k <= m) - 1)

RECURSIVE DigitsValue(_)
DigitsValue(ds) ==
    IF ds = <<>> THEN 0
    ELSE 10 * DigitsValue(SubSeq(ds, 1, Len(ds) - 1)) + DigitValue(ds[Len(ds)])

NaN == [nan |-> TRUE, val |-> 0]
Number(v) == [nan |-> FALSE, val |-> v]

\* parseFloat: leading white space, a sign, digits, a fraction; what follows is
\* ignored; NaN when there is no digit (exponents and "Infinity" are not typed here)
ParseFloat(text) ==
    LET keep == {k \in 1..Len(text) : text[k] \notin {" ", "\t", "\n", "\r"}}
        t == IF keep = {} THEN <<>>
             ELSE SubSeq(text, CHOOSE k \in keep : \A m \in keep : k <= m, Len(text))
        signed == t # <<>> /\ t[1] \in {"-", "+"}
        sign == IF t # <<>> /\ t[1] = "-" THEN -1 ELSE 1
        u == IF signed THEN SubSeq(t, 2, Len(t)) ELSE t
        whole == DigitPrefix(u)
        rest == SubSeq(u, Len(whole) + 1, Len(u))
        frac == IF rest # <<>> /\ rest[1] = "."
                THEN DigitPrefix(SubSeq(rest, 2, Len(rest)))
                ELSE <<>>
    IN  IF whole = <<>> /\ frac = <<>> THEN NaN
        ELSE Number(sign * (DigitsValue(whole) * Scale
                            + DigitsValue(frac) * 10 ^ (MaxText - Len(frac))))

\* isNaN(num)
IsNaN(num) == num.nan

RECURSIVE NatToString(_)
NatToString(n) ==
    IF n < 10 THEN <<Digits[n + 1]>>
    ELSE Append(NatToString(n \div 10), Digits[(n % 10) + 1])

\* f written with width digits
RECURSIVE PadDigits(_, _)
PadDigits(f, width) ==
    IF width = 0 THEN <<>>
    ELSE Append(PadDigits(f \div 10, width - 1), Digits[(f % 10) + 1])

RECURSIVE StripZeros(_)
StripZeros(ds) ==
    IF ds # <<>> /\ ds[Len(ds)] = "0" THEN StripZeros(SubSeq(ds, 1, Len(ds) - 1))
    ELSE ds

\* Number.prototype.toString of v/Scale
NumberToString(v) ==
    LET a == IF v < 0 THEN -v ELSE v
        f == a % Scale
    IN  (IF v < 0 THEN <<"-">> ELSE <<>>)
            \o NatToString(a \div Scale)
            \o (IF f = 0 THEN <<>> ELSE <<".">> \o StripZeros(PadDigits(f, MaxText)))

\* the value an <input type="range"> takes when set: within its limits, on a step
SliderSanitize(v) ==
    LET lo == SliderMin * Scale
        hi == SliderMax * Scale
        c == IF v < lo THEN lo ELSE IF v > hi THEN hi ELSE v
    IN  ((c - lo + SliderStep \div 2) \div SliderStep) * SliderStep + lo

SliderValues == {SliderMin * Scale + k * SliderStep :
                    k \in 0..(((SliderMax - SliderMin) * Scale) \div SliderStep)}

TextAlphabet == {"0", "2", "5", ".", "-", "x"}
TypedTexts == SeqsUpTo(TextAlphabet, MaxText)

\* settings as loaded: the default, or a persisted temperature within the slider's range
LoadedTemperatures == {SliderMin * Scale, DefaultTemperature, SliderMax * Scale}

TempIdle ==
    /\ temperature = DefaultTemperature
    /\ savedTemperature = DefaultTemperature
    /\ sliderShown = SliderSanitize(DefaultTemperature)
    /\ textShown = NumberToString(DefaultTemperature)
    /\ textTail = 0

----------------------------------------------------------------------------
(* The state machine *)

BaseVault == (ReportPdf :> PdfBytes) @@ (ReportPDF :> PdfBytes) @@ (NotesMd :> OldNote)

\* the paths the vault may hold
Paths == {ReportPdf, ReportPDF, NotesMd, ReportMd}

StripIdle ==
    /\ sIn = <<>>
    /\ sCur = <<>>
    /\ sOnce = <<>>
    /\ sStage = "off"
    /\ sWrapped = FALSE

ConvIdle ==
    /\ pc = [i \in Invs |-> "idle"]
    /\ file = [i \in Invs |-> <<>>]
    /\ keyRead = [i \in Invs |-> <<>>]
    /\ apiKey = [i \in Invs |-> <<>>]
    /\ pending = [i \in Invs |-> Null]
    /\ outcome = [i \in Invs |-> "none"]
    /\ requests = [i \in Invs |-> <<>>]
    /\ responses = [i \in Invs |-> <<>>]
    /\ notices = [i \in Invs |-> <<>>]
    /\ vaultCalls = [i \in Invs |-> <<>>]
    /\ writeLog = <<>>

\* after onload: the settings are the defaults overlaid with the persisted data, the
\* vault holds the PDFs and possibly an earlier output
Init ==
    /\ apiKeySetting \in ApiKeys
    /\ vault \in {BaseVault, (ReportMd :> OldNote) @@ BaseVault}
    /\ lowerExt \in BOOLEAN
    /\ ConvIdle
    /\ StripIdle
    /\ TempIdle

\* what one stretch of convertFile does to the invocation's record
Run(i, step) ==
    /\ notices' = [notices EXCEPT ![i] = @ \o step.say]
    /\ requests' = [requests EXCEPT ![i] = @ \o step.req]
    /\ pc' = [pc EXCEPT ![i] = step.pc]
    /\ outcome' = [outcome EXCEPT ![i] = step.outcome]

\* the settings tab's API Key field: onChange (lines 216-219).  The key is read only
\* at line 68, so the changes taken are those made while a read is pending: any other
\* change is indistinguishable from the same change made later.
SetApiKey(value) ==
    /\ value # apiKeySetting
    /\ \E i \in Invs : pc[i] = "awaitRead"
    /\ apiKeySetting' = value
    /\ UNCHANGED <<vault, lowerExt, pc, file, keyRead, apiKey, pending, outcome, requests,
                   responses, notices, vaultCalls, writeLog, stripVars, tempVars>>

\* the file-menu item's onClick (lines 46-55), then convertFile up to its first await
\* (lines 60-62); invocations are numbered in the order they start
Click(i, f) ==
    /\ pc[i] = "idle"
    /\ \A j \in 1..(i - 1) : pc[j] # "idle"
    /\ f \in DOMAIN vault
    /\ MenuOffers(f, lowerExt)
    /\ file' = [file EXCEPT ![i] = f]
    /\ Run(i, Suspend(<<ConvertingNotice(f)>>, <<>>, "awaitRead"))
    /\ UNCHANGED <<apiKeySetting, vault, lowerExt, keyRead, apiKey, pending, responses,
                   vaultCalls, writeLog, stripVars, tempVars>>

\* readBinary resolves (lines 62-90)
ReadDone(i) ==
    /\ pc[i] = "awaitRead"
    /\ keyRead' = [keyRead EXCEPT ![i] = apiKeySetting]
    /\ apiKey' = [apiKey EXCEPT ![i] = Trim(apiKeySetting)]
    /\ Run(i, AfterRead(apiKeySetting))
    /\ UNCHANGED <<apiKeySetting, vault, lowerExt, file, pending, responses,
                   vaultCalls, writeLog, stripVars, tempVars>>

\* the session-start fetch and its text() resolve, or the fetch rejects (lines 77-118)
StartResponse(i, r) ==
    /\ pc[i] = "awaitStart"
    /\ responses' = [responses EXCEPT ![i] = Append(@, r)]
    /\ Run(i, AfterStart(r))
    /\ UNCHANGED <<apiKeySetting, vault, lowerExt, file, keyRead, apiKey, pending,
                   vaultCalls, writeLog, stripVars, tempVars>>

\* the upload fetch and its text() resolve, or the fetch rejects (lines 109-155)
UploadResponse(i, r) ==
    /\ pc[i] = "awaitUpload"
    /\ responses' = [responses EXCEPT ![i] = Append(@, r)]
    /\ Run(i, AfterUpload(r, apiKey[i]))
    /\ UNCHANGED <<apiKeySetting, vault, lowerExt, file, keyRead, apiKey, pending,
                   vaultCalls, writeLog, stripVars, tempVars>>

\* the generation fetch and its text() resolve, or the fetch rejects (lines 138-180).
\* The lookup of newPath and the call of modify or create run without an await between
\* them; create rejects when the vault already holds an entry at the path.
GenerateResponse(i, r) ==
    /\ pc[i] = "awaitGenerate"
    /\ responses' = [responses EXCEPT ![i] = Append(@, r)]
    /\ LET step == AfterGenerate(r, file[i], DOMAIN vault)
       IN  IF step.call = Null
           THEN /\ Run(i, step)
                /\ UNCHANGED <<pending, vaultCalls>>
           ELSE /\ vaultCalls' = [vaultCalls EXCEPT ![i] = Append(@, step.call[1])]
                /\ IF step.call[1].op = "create" /\ step.call[1].path \in DOMAIN vault
                   THEN /\ Run(i, Catch(step.say, "File already exists."))
                        /\ UNCHANGED pending
                   ELSE /\ Run(i, step)
                        /\ pending' = [pending EXCEPT ![i] = step.call]
    /\ UNCHANGED <<apiKeySetting, vault, lowerExt, file, keyRead, apiKey, writeLog, stripVars, tempVars>>

\* vault.modify / vault.create resolves: the content is in the vault (lines 177-181)
WriteDone(i) ==
    /\ pc[i] = "awaitWrite"
    /\ vault' = (pending[i][1].path :> pending[i][1].data) @@ vault
    /\ writeLog' = Append(writeLog, [inv |-> i, path |-> pending[i][1].path,
                                     data |-> pending[i][1].data])
    /\ pending' = [pending EXCEPT ![i] = Null]
    /\ notices' = [notices EXCEPT ![i] = Append(@, ConvertedNotice(file[i], pending[i][1].path))]
    /\ pc' = [pc EXCEPT ![i] = "ended"]
    /\ outcome' = [outcome EXCEPT ![i] = "converted"]
    /\ UNCHANGED <<apiKeySetting, lowerExt, file, keyRead, apiKey, requests, responses,
                   vaultCalls, stripVars, tempVars>>

Next ==
    \/ \E value \in ApiKeys : SetApiKey(value)
    \/ \E i \in Invs, f \in Paths : Click(i, f)
    \/ \E i \in Invs : ReadDone(i)
    \/ \E i \in Invs, r \in StartResponses : StartResponse(i, r)
    \/ \E i \in Invs, r \in UploadResponses : UploadResponse(i, r)
    \/ \E i \in Invs, r \in GenerateResponses : GenerateResponse(i, r)
    \/ \E i \in Invs : WriteDone(i)

Spec == Init /\ [][Next]_vars

\* the fence stripper on its own, the pipeline idle
InitStripper ==
    /\ apiKeySetting = <<" ", "k", " ">>
    /\ vault = BaseVault
    /\ lowerExt = TRUE
    /\ ConvIdle
    /\ InitStrip
    /\ TempIdle

NextStripper ==
    \/ Wrap
    \/ StripFirst
    \/ StripAgain

SpecStripper == InitStripper /\ [][NextStripper]_vars

----------------------------------------------------------------------------
(* What happened to an invocation, read off its record *)

Failed(i) == outcome[i] \in {"returned", "caught"}

Blank(s) == \A k \in 1..Len(s) : s[k] \in WhiteSpace
ReadBlankKey(i) == pc[i] \notin {"idle", "awaitRead"} /\ Blank(keyRead[i])

Answered(i, n) == Len(responses[i]) >= n
BadAnswer(r) == r.rejected \/ r.status \notin 200..299
ErrorStatus(r) == ~r.rejected /\ r.status \notin 200..299

\* the ways a run can fail before the vault is called
FailureCause(i) ==
    \/ ReadBlankKey(i)
    \/ \E n \in 1..Len(responses[i]) : BadAnswer(responses[i][n])
    \/ Answered(i, 1) /\ UploadUrlHeader \notin DOMAIN responses[i][1].headers
    \/ Answered(i, 2) /\ responses[i][2].body # BodyFileUri
    \/ Answered(i, 3) /\ responses[i][3].body \notin {BodyFenced, BodyTwoParts, BodyPlain}

Writers == {writeLog[k].inv : k \in 1..Len(writeLog)}

HasFragment(notice, fragment) == \E k \in 1..Len(notice) : notice[k] = fragment
Said(i, notice) == \E n \in 1..Len(notices[i]) : notices[i][n] = notice

KeyNotice == <<"Please set your API key in plugin settings.">>

----------------------------------------------------------------------------
(* Claims *)

\* C1: an invocation that ends in a failure (blank API key, a rejected fetch, a
\* non-success status, no upload URL, no file URI, no candidates, malformed JSON or
\* another thrown error) has called neither vault.create nor vault.modify and has
\* changed nothing in the vault.
C1_FailureLeavesVault ==
    \A i \in Invs :
        (Failed(i) \/ FailureCause(i)) =>
            /\ vaultCalls[i] = <<>>
            /\ pending[i] = Null
            /\ i \notin Writers
            /\ outcome[i] # "converted"

C1_Witness ==
    \E i \in Invs :
        /\ outcome[i] = "caught"
        /\ Answered(i, 3)
        /\ responses[i][3].body = BodyNoCandidates
        /\ vaultCalls[i] = <<>>

C3_StartErrorStops ==
    \A i \in Invs :
        (Answered(i, 1) /\ ErrorStatus(responses[i][1])) =>
            /\ pc[i] = "ended"
            /\ Len(requests[i]) = 1
            /\ requests[i][1].kind = "start"
            /\ \E n \in 1..Len(notices[i]) :
                  HasFragment(notices[i][n], ToString(responses[i][1].status))

C3_Witness ==
    \E i \in Invs :
        /\ Answered(i, 1)
        /\ responses[i][1].status = 500
        /\ pc[i] = "ended"
        /\ Len(requests[i]) = 1

\* the last completed write to a path, when there is one
LastWrite(p) ==
    LET ks == {k \in 1..Len(writeLog) : writeLog[k].path = p}
    IN  writeLog[CHOOSE k \in ks : \A m \in ks : m <= k]
Written == {writeLog[k].path : k \in 1..Len(writeLog)}
\* where in the order of completed writes invocation i's write stands
WriteIndex(i) == CHOOSE k \in 1..Len(writeLog) : writeLog[k].inv = i

C5_SourceReadOnly ==
    /\ \A i \in Invs :
          pc[i] # "idle" =>
              /\ NewPath(file[i]) # file[i]
              /\ \A n \in 1..Len(vaultCalls[i]) : vaultCalls[i][n].path # file[i]
              /\ file[i] \in DOMAIN vault
              /\ vault[file[i]] = PdfBytes
    /\ \A p \in {ReportPdf, ReportPDF} : p \in DOMAIN vault /\ vault[p] = PdfBytes
    /\ NotesMd \in DOMAIN vault /\ vault[NotesMd] = OldNote

C5_Witness ==
    \E i \in Invs :
        /\ file[i] = ReportPDF
        /\ outcome[i] = "converted"
        /\ vault[ReportMd] = vaultCalls[i][1].data
        /\ vault[ReportPDF] = PdfBytes

\* C6: two conversions with the same output path that run concurrently both complete
\* their write without error, and the output file ends with the content of the one
\* whose write completed last.
C6_LastWriterWins ==
    \A i, j \in Invs :
        (/\ i # j
         /\ vaultCalls[i] # <<>>
         /\ vaultCalls[j] # <<>>
         /\ vaultCalls[i][1].path = vaultCalls[j][1].path) =>
            /\ outcome[i] # "caught"
            /\ outcome[j] # "caught"
            /\ (/\ outcome[i] = "converted"
                /\ outcome[j] = "converted"
                /\ \A k \in 1..Len(writeLog) :
                      writeLog[k].path = vaultCalls[i][1].path => writeLog[k].inv \in {i, j}) =>
                  LET later == IF WriteIndex(i) > WriteIndex(j) THEN i ELSE j
                  IN  vault[vaultCalls[i][1].path] = vaultCalls[later][1].data

\* both looked the path up before either write completed, and the one that called
\* first completed last
C6_Witness ==
    /\ outcome[1] = "converted" /\ outcome[2] = "converted"
    /\ vaultCalls[1][1].path = vaultCalls[2][1].path
    /\ vaultCalls[1][1].op = "create" /\ vaultCalls[2][1].op = "create"
    /\ vaultCalls[1][1].data # vaultCalls[2][1].data
    /\ writeLog[1].inv = 2 /\ writeLog[2].inv = 1
    /\ vault[vaultCalls[1][1].path] = vaultCalls[1][1].data

FailureTexts ==
    { "Please set your API key in plugin settings.", "Upload start failed: ",
      "No upload URL returned", "Upload content failed: ", "No file URI returned",
      "Generate content failed: ", "Error converting file: " }
IsFailureNotice(notice) == notice[1] \in FailureTexts
FailureNotices(i) == {n \in 1..Len(notices[i]) : IsFailureNotice(notices[i][n])}
LastResponse(i) == responses[i][Len(responses[i])]

\* C7 as stated: a failing invocation shows exactly one notice over its whole run.
C7_OnlyOneNotice ==
    \A i \in Invs : Failed(i) => Len(notices[i]) = 1

\* C7, amended: a failing invocation shows exactly one failure notice, as the last
\* notice of its run, carrying the status code and the raw body when the failure is a
\* non-success response; before it come the "Converting ..." notice and the progress
\* notice of every step that succeeded.
C7_OneFailureNotice ==
    \A i \in Invs :
        Failed(i) =>
            /\ FailureNotices(i) = {Len(notices[i])}
            /\ notices[i][1] = ConvertingNotice(file[i])
            /\ Len(notices[i]) >= 2
            /\ (responses[i] # <<>> /\ ErrorStatus(LastResponse(i))) =>
                  /\ HasFragment(notices[i][Len(notices[i])], ToString(LastResponse(i).status))
                  /\ HasFragment(notices[i][Len(notices[i])], LastResponse(i).body)
            /\ Len(notices[i]) =
                  2 + (IF Answered(i, 1) /\ ~BadAnswer(responses[i][1]) THEN 1 ELSE 0)
                    + (IF Len(requests[i]) >= 2 THEN 1 ELSE 0)
                    + (IF Answered(i, 2) /\ ~BadAnswer(responses[i][2]) THEN 1 ELSE 0)
                    + (IF Len(requests[i]) >= 3 THEN 1 ELSE 0)
                    + (IF Answered(i, 3) /\ ~BadAnswer(responses[i][3]) THEN 1 ELSE 0)

C7_Witness ==
    \E i \in Invs :
        /\ Failed(i)
        /\ Answered(i, 3)
        /\ LastResponse(i).status = 429
        /\ Len(notices[i]) = 6
        /\ HasFragment(notices[i][6], "429")
        /\ HasFragment(notices[i][6], "Quota exceeded")

SiblingMd(path) == SubSeq(path, 1, Len(path) - 4) \o <<".", "m", "d">>

\* the end-to-end scenario: the start response carries x-goog-upload-url, the upload
\* body is {"file":{"uri":"files/abc"}}, the first candidate's one text part is the
\* fenced "# Title"
Scenario(i) ==
    /\ pc[i] = "ended"
    /\ Len(responses[i]) = 3
    /\ ~BadAnswer(responses[i][1]) /\ UploadUrlHeader \in DOMAIN responses[i][1].headers
    /\ ~BadAnswer(responses[i][2]) /\ responses[i][2].body = BodyFileUri
    /\ ~BadAnswer(responses[i][3]) /\ responses[i][3].body = BodyFenced

WrittenOnce(i) ==
    /\ outcome[i] = "converted"
    /\ Len(vaultCalls[i]) = 1
    /\ vaultCalls[i][1].path = SiblingMd(file[i])
    /\ Cardinality({k \in 1..Len(writeLog) : writeLog[k].inv = i}) = 1
    /\ writeLog[WriteIndex(i)].path = SiblingMd(file[i])
    /\ writeLog[WriteIndex(i)].data = vaultCalls[i][1].data

\* C10 as stated: in the end-to-end scenario the invocation writes exactly one file, at
\* the sibling .md path, with the content "# Title\n" (the heading and one newline).
C10_TitleWithNewline ==
    \A i \in Invs :
        Scenario(i) => WrittenOnce(i) /\ vaultCalls[i][1].data = Title \o <<LF>>

\* C10, amended: in the end-to-end scenario the invocation writes exactly one file, at
\* the sibling .md path, with the content "# Title": the newline before the closing
\* fence is removed with the fence.
C10_TitleOnly ==
    \A i \in Invs :
        Scenario(i) => WrittenOnce(i) /\ vaultCalls[i][1].data = Title

C10_Witness ==
    \E i \in Invs :
        /\ Scenario(i)
        /\ file[i] = ReportPDF
        /\ vault[ReportMd] = Title
        /\ vaultCalls[i][1].op = "create"

\* C8 as stated: stripping "```markdown\n" + text + "\n```" returns exactly text, for
\* every text.
C8_StripUndoesWrap ==
    (sStage = "once" /\ sWrapped) => sCur = sIn

\* C8, amended: stripping "```markdown\n" + text + "\n```" returns exactly text for
\* every text that does not end with a carriage return; a text that ends with one
\* comes back without it, the pattern \r?\n?``` taking it for part of the closing fence.
C8_StripUndoesWrapUnlessCR ==
    (sStage = "once" /\ sWrapped) =>
        IF EndsWith(sIn, <<CR>>)
        THEN sCur = SubSeq(sIn, 1, Len(sIn) - 1)
        ELSE sCur = sIn

C8_Witness ==
    /\ sStage = "once"
    /\ sWrapped
    /\ StartsWith(sIn, Fence \o <<LF>>)
    /\ EndsWith(sIn, <<LF>> \o Fence)
    /\ Len(sIn) = MaxLen
    /\ sCur = sIn

\* C9 as stated: strip(strip(x)) = strip(x) for every string x.
C9_StripIdempotent ==
    sStage = "twice" => sCur = sOnce

\* C9, amended: strip(strip(x)) = strip(x) exactly for the strings x whose stripped
\* form strip(x) neither begins nor ends with a fence marker; each application removes
\* one leading and one trailing marker, so a text fenced twice changes again.
C9_StripIdempotentUnlessFenced ==
    sStage = "twice" =>
        (sCur = sOnce <=> ~StartsWith(sOnce, Fence) /\ ~EndsWith(sOnce, Fence))

C9_Witness ==
    /\ sStage = "twice"
    /\ ~sWrapped
    /\ StartsWith(sIn, Fence)
    /\ EndsWith(sIn, Fence)
    /\ Len(sOnce) > 0
    /\ Len(sOnce) <= Len(sIn) - 6
    /\ sCur = sOnce

----------------------------------------------------------------------------
(* The settings tab: the Temperature slider and its text field.  setValue on a
   control shows the value without calling the control's onChange; saveData takes
   the settings as they are when it is called *)

InitSettings ==
    /\ apiKeySetting = <<" ", "k", " ">>
    /\ vault = BaseVault
    /\ lowerExt = TRUE
    /\ ConvIdle
    /\ StripIdle
    /\ temperature \in LoadedTemperatures
    /\ savedTemperature = temperature
    /\ sliderShown = SliderSanitize(temperature)
    /\ textShown = NumberToString(temperature)
    /\ textTail = 0

\* the slider is moved to value
SliderChange(value) ==
    /\ temperature' = value
    /\ sliderShown' = value
    /\ textShown' = NumberToString(value)
    /\ savedTemperature' = value
    /\ UNCHANGED <<textTail, convVars, stripVars>>

\* value is typed into the text field: the handler up to its await, or to its end
TextChange(value) ==
    LET num == ParseFloat(value)
    IN  IF ~IsNaN(num)
        THEN /\ textTail < MaxTail
             /\ temperature' = num.val
             /\ sliderShown' = SliderSanitize(num.val)
             /\ savedTemperature' = num.val
             /\ textShown' = value
             /\ textTail' = textTail + 1
             /\ UNCHANGED <<convVars, stripVars>>
        ELSE /\ textShown' = NumberToString(temperature)
             /\ UNCHANGED <<temperature, savedTemperature, sliderShown, textTail,
                            convVars, stripVars>>

\* a text-field handler resumes after saveSettings
TextTail ==
    /\ textTail > 0
    /\ textTail' = textTail - 1
    /\ textShown' = NumberToString(temperature)
    /\ UNCHANGED <<temperature, savedTemperature, sliderShown, convVars, stripVars>>

NextSettings ==
    \/ \E value \in SliderValues : SliderChange(value)
    \/ \E value \in TypedTexts : TextChange(value)
    \/ TextTail

SpecSettings == InitSettings /\ [][NextSettings]_vars

InRange(v) == SliderMin * Scale <= v /\ v <= SliderMax * Scale

\* C11: after any sequence of slider and text-field changes the temperature, in
\* memory and as persisted, lies between 0 and 2
C11_TemperatureInRange ==
    InRange(temperature) /\ InRange(savedTemperature)


\* what a response returned: an upload URL, a file URI, candidates
HasUploadUrl(r) ==
    UploadUrlHeader \in DOMAIN r.headers /\ r.headers[UploadUrlHeader] # ""
HasFileUri(r) ==
    LET fileInfo == JsonParse(r.body)
    IN  /\ fileInfo.ok
        /\ fileInfo.value.file # Null
        /\ fileInfo.value.file[1].uri \notin {Null, Some("")}
HasCandidate(r) ==
    LET genData == JsonParse(r.body)
    IN  /\ genData.ok
        /\ genData.value.candidates # Null
        /\ Len(genData.value.candidates[1]) >= 1

Steps == <<"start", "upload", "generate">>
Succeeded(i, n) == Answered(i, n) /\ ~BadAnswer(responses[i][n])
WritesOf(i) == {k \in 1..Len(writeLog) : writeLog[k].inv = i}

\* C12: within one invocation the start, upload and generate requests are each issued
\* at most once and in that order; the upload request only after the start call
\* succeeded with an upload URL, the generate request only after the upload call
\* succeeded with a file URI; the vault is written (create or modify) at most once and
\* only after the generate call succeeded with at least one candidate; a failed call
\* ends the invocation with no further request.
C12_LinearNoRetry ==
    \A i \in Invs :
        /\ Len(requests[i]) <= Len(Steps)
        /\ \A n \in 1..Len(requests[i]) : requests[i][n].kind = Steps[n]
        /\ Len(responses[i]) <= Len(requests[i])
        /\ Len(requests[i]) <= Len(responses[i]) + 1
        /\ Len(requests[i]) >= 2 => Succeeded(i, 1) /\ HasUploadUrl(responses[i][1])
        /\ Len(requests[i]) >= 3 => Succeeded(i, 2) /\ HasFileUri(responses[i][2])
        /\ Len(vaultCalls[i]) <= 1
        /\ Cardinality(WritesOf(i)) <= Len(vaultCalls[i])
        /\ pending[i] # Null => vaultCalls[i] # <<>>
        /\ vaultCalls[i] # <<>> =>
              /\ Len(requests[i]) = 3
              /\ Succeeded(i, 3)
              /\ HasCandidate(responses[i][3])
        /\ \A n \in 1..Len(responses[i]) :
              BadAnswer(responses[i][n]) =>
                  /\ n = Len(requests[i])
                  /\ pc[i] = "ended"
                  /\ vaultCalls[i] = <<>>

\* one invocation went through the three calls and wrote once while another stopped
\* at its upload call
C12_Witness ==
    \E i, j \in Invs :
        /\ outcome[i] = "converted"
        /\ Len(requests[i]) = 3
        /\ Len(vaultCalls[i]) = 1
        /\ Cardinality(WritesOf(i)) = 1
        /\ Failed(j)
        /\ Len(requests[j]) = 2
        /\ BadAnswer(responses[j][2])


\* upload bodies that parse as JSON and hold no file URI
NoFileUriBodies == {BodyEmptyUri, BodyNoUri, BodyEmptyObject}

\* C13: when the upload call answers with a success status and a JSON body without a
\* file URI (uri empty or missing, or no file object), the invocation ends with the
\* "No file URI returned" notice, not with the "Error converting file" notice, and no
\* generation request is issued.
C13_MissingUriNotice ==
    \A i \in Invs :
        (Succeeded(i, 2) /\ responses[i][2].body \in NoFileUriBodies) =>
            /\ pc[i] = "ended"
            /\ outcome[i] = "returned"
            /\ notices[i][Len(notices[i])] = <<"No file URI returned">>
            /\ \A n \in 1..Len(notices[i]) : notices[i][n][1] # "Error converting file: "
            /\ Len(requests[i]) = 2

====
